---- MODULE Spec2Model ----
(***************************************************************************)
(* The review analyser page script, static/script.js, as a state machine.  *)
(*                                                                         *)
(* State: the DOM elements the script reads and writes (the review text    *)
(* area, the character counter, the analyze button, the loading overlay,   *)
(* the result card and the toast), the pending setTimeout callbacks, and   *)
(* one record per outstanding call of the async function analyzeSentiment. *)
(* Strings are sequences of one-character strings, so that trim(), length  *)
(* and encodeURIComponent() are computed and not assumed.                  *)
(*                                                                         *)
(* One action per event-loop task: a DOM event handler, a timer callback,  *)
(* or the continuation of analyzeSentiment after one of its awaits.  Each  *)
(* runs to completion, as JavaScript tasks do.                             *)
(***************************************************************************)
EXTENDS Integers, Sequences, FiniteSets, TLC

----------------------------------------------------------------------------
(* Bounds of the model *)

\* The user types the word "a" with up to this many blanks on each side.
MaxPad == 1

\* Calls of analyzeSentiment that may be outstanding at once.
MaxInvocations == 2

\* The counter specification types strings of every length up to this one.
MaxCount == 460

----------------------------------------------------------------------------
(* Program constants *)

\* setTimeout(resolve, 1500): the demo delay before the request.
DelayMs == 1500

\* setTimeout(..., 3000): the lifetime of a toast.
ToastMs == 3000

\* count > 400: the warning band starts above this count.
WarnAbove == 400

\* count > 450: the critical band starts above this count.
CriticalAbove == 450

ColorCritical == "#ef233c"
ColorWarning == "#ffaa00"
ColorNormal == "#6c757d"

\* The style the counter has before any input event (no inline colour).
ColorUnset == ""

MsgEmptyInput ==
    "Please enter a review before analyzing"
MsgAnalysisError ==
    "An error occurred during analysis"
MsgSampleLoaded ==
    "Sample review loaded"
MsgTextCleared ==
    "Text cleared"
MsgFeedbackCorrect ==
    "Thanks for your positive feedback!"
MsgFeedbackOther ==
    "We appreciate your feedback and will improve our model."

BarBackground ==
    "linear-gradient(90deg, var(--negative), var(--positive))"

sampleReviews ==
  << <<
    "T","h","i","s"," ","m","o","v","i","e"," ","w","a","s"," ","a","b","s",
    "o","l","u","t","e","l","y"," ","f","a","n","t","a","s","t","i","c","!",
    " ","T","h","e"," ","a","c","t","i","n","g"," ","w","a","s"," ","s","u",
    "p","e","r","b"," ","a","n","d"," ","t","h","e"," ","s","t","o","r","y",
    "l","i","n","e"," ","k","e","p","t"," ","m","e"," ","e","n","g","a","g",
    "e","d"," ","t","h","r","o","u","g","h","o","u","t","."," ","O","n","e",
    " ","o","f"," ","t","h","e"," ","b","e","s","t"," ","f","i","l","m","s",
    " ","I","'","v","e"," ","s","e","e","n"," ","t","h","i","s"," ","y","e",
    "a","r","."
  >>, <<
    "I"," ","w","a","s"," ","r","e","a","l","l","y"," ","d","i","s","a","p",
    "p","o","i","n","t","e","d"," ","w","i","t","h"," ","t","h","i","s"," ",
    "f","i","l","m","."," ","T","h","e"," ","p","l","o","t"," ","w","a","s",
    " ","p","r","e","d","i","c","t","a","b","l","e"," ","a","n","d"," ","t",
    "h","e"," ","c","h","a","r","a","c","t","e","r","s"," ","w","e","r","e",
    " ","p","o","o","r","l","y"," ","d","e","v","e","l","o","p","e","d",".",
    " ","W","o","u","l","d"," ","n","o","t"," ","r","e","c","o","m","m","e",
    "n","d","."
  >>, <<
    "T","h","e"," ","c","i","n","e","m","a","t","o","g","r","a","p","h","y",
    " ","w","a","s"," ","b","e","a","u","t","i","f","u","l",","," ","b","u",
    "t"," ","t","h","e"," ","p","a","c","i","n","g"," ","f","e","l","t"," ",
    "t","o","o"," ","s","l","o","w","."," ","O","v","e","r","a","l","l"," ",
    "i","t","'","s"," ","a","n"," ","a","v","e","r","a","g","e"," ","m","o",
    "v","i","e"," ","w","i","t","h"," ","s","o","m","e"," ","g","o","o","d",
    " ","m","o","m","e","n","t","s","."
  >>, <<
    "T","e","r","r","i","b","l","e"," ","e","x","p","e","r","i","e","n","c",
    "e"," ","f","r","o","m"," ","s","t","a","r","t"," ","t","o"," ","f","i",
    "n","i","s","h","."," ","T","h","e"," ","d","i","a","l","o","g","u","e",
    " ","w","a","s"," ","c","r","i","n","g","e","-","w","o","r","t","h","y",
    " ","a","n","d"," ","t","h","e"," ","s","p","e","c","i","a","l"," ","e",
    "f","f","e","c","t","s"," ","l","o","o","k","e","d"," ","c","h","e","a",
    "p","."," ","S","a","v","e"," ","y","o","u","r"," ","m","o","n","e","y",
    "!"
  >>, <<
    "A"," ","m","a","s","t","e","r","p","i","e","c","e"," ","o","f"," ","m",
    "o","d","e","r","n"," ","c","i","n","e","m","a","."," ","E","v","e","r",
    "y"," ","a","s","p","e","c","t"," ","o","f"," ","t","h","i","s"," ","f",
    "i","l","m"," ","w","a","s"," ","c","a","r","e","f","u","l","l","y"," ",
    "c","r","a","f","t","e","d"," ","a","n","d"," ","i","t"," ","s","h","o",
    "w","s","."," ","T","h","e"," ","p","e","r","f","o","r","m","a","n","c",
    "e","s"," ","w","e","r","e"," ","O","s","c","a","r","-","w","o","r","t",
    "h","y","."
  >> >>

----------------------------------------------------------------------------
(* Strings *)

\* The white space String.prototype.trim removes, as far as the model's
\* alphabet has it.
IsWhiteSpace(c) == c \in {" ", "\t", "\n"}

RECURSIVE TrimStart(_)
TrimStart(s) ==
    IF s = <<>> \/ ~IsWhiteSpace(Head(s)) THEN s ELSE TrimStart(Tail(s))

RECURSIVE TrimEnd(_)
TrimEnd(s) ==
    IF s = <<>> \/ ~IsWhiteSpace(s[Len(s)])
    THEN s
    ELSE TrimEnd(SubSeq(s, 1, Len(s) - 1))

\* String.prototype.trim
Trim(s) == TrimEnd(TrimStart(s))

\* The characters encodeURIComponent leaves as they are.
UriUnreserved ==
    {"A","B","C","D","E","F","G","H","I","J","K","L","M",
     "N","O","P","Q","R","S","T","U","V","W","X","Y","Z",
     "a","b","c","d","e","f","g","h","i","j","k","l","m",
     "n","o","p","q","r","s","t","u","v","w","x","y","z",
     "0","1","2","3","4","5","6","7","8","9",
     "-","_",".","!","~","*","'","(",")"}

\* The code unit of the escaped ASCII characters the model's strings hold.
CharCode(c) ==
    CASE c = "\t" -> 9
      [] c = "\n" -> 10
      [] c = " " -> 32
      [] c = "%" -> 37
      [] c = "&" -> 38
      [] c = "+" -> 43
      [] c = "," -> 44
      [] c = "=" -> 61

HexDigit(n) ==
    <<"0","1","2","3","4","5","6","7","8","9","A","B","C","D","E","F">>[n + 1]

PercentEncode(c) ==
    <<"%", HexDigit(CharCode(c) \div 16), HexDigit(CharCode(c) % 16)>>

\* One character as encodeURIComponent writes it.
EncodeChar(c) == IF c \in UriUnreserved THEN <<c>> ELSE PercentEncode(c)

\* encodeURIComponent: the characters' encodings, in order (the string is
\* halved at each level to keep the evaluation shallow).
RECURSIVE EncodeURIComponent(_)
EncodeURIComponent(s) ==
    IF Len(s) = 0 THEN <<>>
    ELSE IF Len(s) = 1 THEN EncodeChar(s[1])
    ELSE LET half == Len(s) \div 2 IN
         EncodeURIComponent(SubSeq(s, 1, half))
             \o EncodeURIComponent(SubSeq(s, half + 1, Len(s)))

\* The template literal `text=${encodeURIComponent(text)}`.
RequestBody(text) == <<"t","e","x","t","=">> \o EncodeURIComponent(text)

DecimalDigit(n) == <<"0","1","2","3","4","5","6","7","8","9">>[n + 1]

\* Number to string, as assigning a number to textContent converts it.
RECURSIVE NumberToString(_)
NumberToString(n) ==
    IF n < 10
    THEN <<DecimalDigit(n)>>
    ELSE NumberToString(n \div 10) \o <<DecimalDigit(n % 10)>>

----------------------------------------------------------------------------
(* JavaScript values of data.sentiment *)

JsString(s) == [type |-> "string", val |-> s]
JsUndefined == [type |-> "undefined", val |-> ""]

\* sentiment === 'Positive'
StrictEquals(v, s) == v.type = "string" /\ v.val = s

\* What assigning v to textContent displays: a string as it is, undefined as
\* the text "undefined".
ToTextContent(v) ==
    IF v.type = "string" THEN v.val ELSE "undefined"

\* The labels the endpoint is documented to return.
KnownLabels == {"Positive", "Negative", "Neutral"}

\* The sentiment values a parsed response body may hold: the documented
\* labels, a label outside them, and none (the field is missing).
SentimentValues ==
    {JsString(l) : l \in KnownLabels \cup {"Mixed"}} \cup {JsUndefined}

----------------------------------------------------------------------------
(* Inputs of the model *)

\* n blanks.
Blanks(n) == [i \in 1..n |-> " "]

\* What the user types: nothing, blanks only, or a word with blanks around it.
TypedInputs ==
    {Blanks(n) : n \in 0..MaxPad}
        \cup {Blanks(n) \o <<"a">> \o Blanks(n) : n \in 0..MaxPad}

\* n times the character "a".
Filled(n) == [i \in 1..n |-> "a"]

\* One string of every length 0 .. MaxCount.
CountInputs == {Filled(n) : n \in 0..MaxCount}

Slots == 1..MaxInvocations

\* Time advances in steps of the largest unit both timer delays are multiples
\* of; every expiry falls on a step.
RECURSIVE Gcd(_, _)
Gcd(a, b) == IF b = 0 THEN a ELSE Gcd(b, a % b)
TimeStep == Gcd(ToastMs, DelayMs)

----------------------------------------------------------------------------
(* State *)

VARIABLES
    reviewValue,      \* reviewText.value
    charCountText,    \* charCount.textContent
    charCountColor,   \* charCount.style.color
    overlayVisible,   \* loadingOverlay.classList has 'visible'
    btnDisabled,      \* analyzeBtn.disabled
    resultVisible,    \* resultCard.classList has 'visible'
    rendered,         \* what updateResultUI last wrote into the result card
    toastText,        \* toast.textContent
    toastVisible,     \* toast.classList has 'visible'
    toastTimers,      \* pending hide callbacks of showToast: ms left of each
    sinceToast,       \* ms since the latest showToast call, capped at ToastMs
    inv,              \* the calls of analyzeSentiment, one record per slot
    inflight,         \* the unanswered /predict requests: per slot, the bodies
    clearedDuring,    \* the calls in whose course clearText has run
    lastOp            \* the task that ran last

inputVars == <<reviewValue, charCountText, charCountColor>>
busyVars == <<overlayVisible, btnDisabled>>
resultVars == <<resultVisible, rendered>>
toastVars == <<toastText, toastVisible, toastTimers, sinceToast>>
invVars == <<inv, inflight>>
vars ==
    <<reviewValue, charCountText, charCountColor, overlayVisible, btnDisabled,
      resultVisible, rendered, toastText, toastVisible, toastTimers,
      sinceToast, inv, inflight, clearedDuring, lastOp>>

\* A slot no call has used.
IdleInvocation ==
    [pc |-> "idle", text |-> <<>>, timer |-> 0, sent |-> 0, cleanups |-> 0,
     outcome |-> "none"]

\* The result card as the page delivers it: nothing rendered yet.
NothingRendered ==
    [sentimentText |-> "", indicatorClass |-> "", iconHTML |-> "",
     barWidth |-> "", barBackground |-> "", confidenceText |-> ""]

Op(name, id, arg) == [op |-> name, id |-> id, arg |-> arg]

\* The page as loaded: an empty text area, the counter at 0 without an inline
\* colour, overlay, result card and toast hidden, the button enabled, no
\* timer pending and no call made.
Init ==
    /\ reviewValue = <<>>
    /\ charCountText = NumberToString(0)
    /\ charCountColor = ColorUnset
    /\ overlayVisible = FALSE
    /\ btnDisabled = FALSE
    /\ resultVisible = FALSE
    /\ rendered = NothingRendered
    /\ toastText = ""
    /\ toastVisible = FALSE
    /\ toastTimers = {}
    /\ sinceToast = ToastMs
    /\ inv = [i \in Slots |-> IdleInvocation]
    /\ inflight = [i \in Slots |-> <<>>]
    /\ clearedDuring = {}
    /\ lastOp = Op("load", 0, "")

----------------------------------------------------------------------------
(* The input listener and the toast *)

\* CountColor with the thresholds taken inclusively.
CountColorInclusive(count) ==
    IF count >= CriticalAbove THEN ColorCritical
    ELSE IF count >= WarnAbove THEN ColorWarning
    ELSE ColorNormal

\* The colour the input listener gives the counter for a count.
CountColor(count) ==
    IF count > CriticalAbove THEN ColorCritical
    ELSE IF count > WarnAbove THEN ColorWarning
    ELSE ColorNormal

\* The 'input' listener of reviewText, run on the value the area then holds.
InputListener(value) ==
    /\ charCountText' = NumberToString(Len(value))
    /\ charCountColor' = CountColor(Len(value))

\* showToast(message): the message replaces the one shown, and one more hide
\* callback is scheduled; no pending callback is cancelled.
ShowToast(message) ==
    /\ toastText' = message
    /\ toastVisible' = TRUE
    /\ toastTimers' = toastTimers \cup {ToastMs}
    /\ sinceToast' = 0

\* The user edits the text area: the value changes and the input event fires.
InputEvent(value) ==
    /\ value # reviewValue
    /\ reviewValue' = value
    /\ InputListener(value)
    /\ lastOp' = Op("input", 0, "")
    /\ UNCHANGED clearedDuring
    /\ UNCHANGED <<busyVars, resultVars, toastVars, invVars>>

\* The callback showToast scheduled runs when its 3000 ms are over.
ToastTimeout ==
    /\ 0 \in toastTimers
    /\ toastVisible' = FALSE
    /\ toastTimers' = toastTimers \ {0}
    /\ lastOp' = Op("toastTimeout", 0, "")
    /\ UNCHANGED clearedDuring
    /\ UNCHANGED <<inputVars, busyVars, resultVars, toastText, sinceToast,
                   invVars>>

----------------------------------------------------------------------------
(* updateResultUI *)

\* Render with the percentages of the two first branches exchanged.
RenderSwappedConfidence(sentiment) ==
    IF StrictEquals(sentiment, "Positive")
    THEN [sentimentText |-> ToTextContent(sentiment),
          indicatorClass |-> "sentiment-positive",
          iconHTML |-> "<i class=\"fas fa-smile-beam\"></i>",
          barWidth |-> "20%",
          barBackground |-> BarBackground,
          confidenceText |-> "20%"]
    ELSE IF StrictEquals(sentiment, "Negative")
    THEN [sentimentText |-> ToTextContent(sentiment),
          indicatorClass |-> "sentiment-negative",
          iconHTML |-> "<i class=\"fas fa-frown-open\"></i>",
          barWidth |-> "80%",
          barBackground |-> BarBackground,
          confidenceText |-> "80%"]
    ELSE [sentimentText |-> ToTextContent(sentiment),
          indicatorClass |-> "sentiment-neutral",
          iconHTML |-> "<i class=\"fas fa-meh\"></i>",
          barWidth |-> "50%",
          barBackground |-> BarBackground,
          confidenceText |-> "50%"]

\* Render without the final else branch: a value that is neither 'Positive'
\* nor 'Negative' changes the label text only.
RenderNoDefault(sentiment) ==
    IF StrictEquals(sentiment, "Positive")
    THEN [sentimentText |-> ToTextContent(sentiment),
          indicatorClass |-> "sentiment-positive",
          iconHTML |-> "<i class=\"fas fa-smile-beam\"></i>",
          barWidth |-> "80%",
          barBackground |-> BarBackground,
          confidenceText |-> "80%"]
    ELSE IF StrictEquals(sentiment, "Negative")
    THEN [sentimentText |-> ToTextContent(sentiment),
          indicatorClass |-> "sentiment-negative",
          iconHTML |-> "<i class=\"fas fa-frown-open\"></i>",
          barWidth |-> "20%",
          barBackground |-> BarBackground,
          confidenceText |-> "20%"]
    ELSE [rendered EXCEPT !.sentimentText = ToTextContent(sentiment)]

\* What updateResultUI(sentiment) writes into the result card.
Render(sentiment) ==
    IF StrictEquals(sentiment, "Positive")
    THEN [sentimentText |-> ToTextContent(sentiment),
          indicatorClass |-> "sentiment-positive",
          iconHTML |-> "<i class=\"fas fa-smile-beam\"></i>",
          barWidth |-> "80%",
          barBackground |-> BarBackground,
          confidenceText |-> "80%"]
    ELSE IF StrictEquals(sentiment, "Negative")
    THEN [sentimentText |-> ToTextContent(sentiment),
          indicatorClass |-> "sentiment-negative",
          iconHTML |-> "<i class=\"fas fa-frown-open\"></i>",
          barWidth |-> "20%",
          barBackground |-> BarBackground,
          confidenceText |-> "20%"]
    ELSE [sentimentText |-> ToTextContent(sentiment),
          indicatorClass |-> "sentiment-neutral",
          iconHTML |-> "<i class=\"fas fa-meh\"></i>",
          barWidth |-> "50%",
          barBackground |-> BarBackground,
          confidenceText |-> "50%"]

\* updateResultUI that renders only into a card that holds no result yet.
UpdateResultUIFirstOnly(sentiment) ==
    /\ rendered' = (IF rendered = NothingRendered THEN Render(sentiment)
                    ELSE rendered)
    /\ resultVisible' = TRUE

\* updateResultUI(sentiment).  The scrollIntoView it schedules 100 ms later
\* moves the viewport only, which is no part of the state.
UpdateResultUI(sentiment) ==
    /\ rendered' = Render(sentiment)
    /\ resultVisible' = TRUE

----------------------------------------------------------------------------
(* analyzeSentiment *)

Min(S) == CHOOSE x \in S : \A y \in S : x <= y

\* Call i has entered the loading state and has not run its finally block.
Outstanding(i) == inv[i].pc \in {"delay", "fetch", "json"}

\* The slots a new call may take: those of no call, or of a returned one.
FreeSlots == {i \in Slots : inv[i].pc \in {"idle", "done"}}

\* ReadText without the trim.
ReadTextUntrimmed == reviewValue

\* const text = reviewText.value.trim()
ReadText == Trim(reviewValue)

\* EnterBusy that shows the overlay and leaves the button enabled.
EnterBusyOverlayOnly ==
    /\ overlayVisible' = TRUE
    /\ btnDisabled' = btnDisabled

\* The loading state is shown.
EnterBusy ==
    /\ overlayVisible' = TRUE
    /\ btnDisabled' = TRUE

\* The call, up to its first await: the empty check, the loading state and
\* the start of the 1500 ms delay.
AnalyzeSentiment ==
    LET text == ReadText IN
    IF text = <<>>
    THEN /\ ShowToast(MsgEmptyInput)
         /\ lastOp' = Op("analyzeSentiment", 0, "empty")
         /\ UNCHANGED clearedDuring
         /\ UNCHANGED <<inputVars, busyVars, resultVars, invVars>>
    ELSE /\ FreeSlots # {}
         /\ LET i == Min(FreeSlots) IN
            /\ inv' = [inv EXCEPT ![i] =
                          [pc |-> "delay", text |-> text, timer |-> DelayMs,
                           sent |-> 0, cleanups |-> 0, outcome |-> "none"]]
            /\ lastOp' = Op("analyzeSentiment", i, "busy")
            /\ clearedDuring' = clearedDuring \ {i}
         /\ EnterBusy
         /\ UNCHANGED <<inputVars, resultVars, toastVars, inflight>>

\* A click on the analyze button: the browser delivers none while the button
\* is disabled.
ClickAnalyze ==
    /\ ~btnDisabled
    /\ AnalyzeSentiment

\* RequestText read from the text area when the request is made.
RequestTextReadLate(i) == Trim(reviewValue)

\* The text call i puts into its request: the constant it read on entry.
RequestText(i) == inv[i].text

\* DelayElapsed without the wait: the request is made while the delay runs.
DelayElapsedAtOnce(i) ==
    /\ inv[i].pc = "delay"
    /\ inv' = [inv EXCEPT ![i].pc = "fetch", ![i].sent = @ + 1, ![i].timer = 0]
    /\ inflight' = [inflight EXCEPT ![i] = Append(@, RequestBody(RequestText(i)))]
    /\ lastOp' = Op("delayElapsed", i, "")
    /\ UNCHANGED clearedDuring
    /\ UNCHANGED <<inputVars, busyVars, resultVars, toastVars>>

\* The delay of call i is over: fetch('/predict', ...) issues the request.
DelayElapsed(i) ==
    /\ inv[i].pc = "delay"
    /\ inv[i].timer = 0
    /\ inv' = [inv EXCEPT ![i].pc = "fetch", ![i].sent = @ + 1]
    /\ inflight' = [inflight EXCEPT ![i] = Append(@, RequestBody(RequestText(i)))]
    /\ lastOp' = Op("delayElapsed", i, "")
    /\ UNCHANGED clearedDuring
    /\ UNCHANGED <<inputVars, busyVars, resultVars, toastVars>>

\* Finally that leaves the loading state to the last outstanding call.
FinallyWhenLast(i, outcome) ==
    LET others == \E j \in Slots \ {i} : Outstanding(j) IN
    /\ overlayVisible' = (others /\ overlayVisible)
    /\ btnDisabled' = (others /\ btnDisabled)
    /\ inv' = [inv EXCEPT ![i] =
                  [pc |-> "done", text |-> <<>>, timer |-> 0, sent |-> @.sent,
                   cleanups |-> @.cleanups + 1, outcome |-> outcome]]

\* Finally that hides the overlay and leaves the button disabled.
FinallyOverlayOnly(i, outcome) ==
    /\ overlayVisible' = FALSE
    /\ btnDisabled' = btnDisabled
    /\ inv' = [inv EXCEPT ![i] =
                  [pc |-> "done", text |-> <<>>, timer |-> 0, sent |-> @.sent,
                   cleanups |-> @.cleanups + 1, outcome |-> outcome]]

\* Finally with the cleanup at the end of the try block: skipped on an error.
FinallyOnSuccessOnly(i, outcome) ==
    /\ overlayVisible' = (IF outcome = "success" THEN FALSE ELSE overlayVisible)
    /\ btnDisabled' = (IF outcome = "success" THEN FALSE ELSE btnDisabled)
    /\ inv' = [inv EXCEPT ![i] =
                  [pc |-> "done", text |-> <<>>, timer |-> 0, sent |-> @.sent,
                   cleanups |-> IF outcome = "success" THEN @.cleanups + 1
                                ELSE @.cleanups,
                   outcome |-> outcome]]

\* The finally block of call i, which then returns with the given outcome.
Finally(i, outcome) ==
    /\ overlayVisible' = FALSE
    /\ btnDisabled' = FALSE
    /\ inv' = [inv EXCEPT ![i] =
                  [pc |-> "done", text |-> <<>>, timer |-> 0, sent |-> @.sent,
                   cleanups |-> @.cleanups + 1, outcome |-> outcome]]

\* CatchError that only logs the error.
CatchErrorLogOnly ==
    UNCHANGED toastVars

\* The catch block: the error is logged and the generic toast shown.
CatchError ==
    ShowToast(MsgAnalysisError)

\* The request of call i is answered, or fails without an answer.
ReceiveResponse(i) ==
    /\ inv[i].pc = "fetch"
    /\ inflight[i] # <<>>
    /\ inflight' = [inflight EXCEPT ![i] = Tail(@)]

\* fetch rejects (no answer from the network): catch, then finally.
FetchRejects(i) ==
    /\ ReceiveResponse(i)
    /\ CatchError
    /\ Finally(i, "exception")
    /\ lastOp' = Op("fetchRejects", i, "exception")
    /\ UNCHANGED clearedDuring
    /\ UNCHANGED <<inputVars, resultVars>>

\* fetch resolves with a response.  Not ok: the throw of line 63, catch, then
\* finally.  Ok: response.json() is awaited.
FetchResolves(i, ok) ==
    /\ ReceiveResponse(i)
    /\ IF ok
       THEN /\ inv' = [inv EXCEPT ![i].pc = "json"]
            /\ lastOp' = Op("fetchResolves", i, "ok")
            /\ UNCHANGED clearedDuring
            /\ UNCHANGED <<inputVars, busyVars, resultVars, toastVars>>
       ELSE /\ CatchError
            /\ Finally(i, "http_error")
            /\ lastOp' = Op("fetchResolves", i, "http_error")
            /\ UNCHANGED clearedDuring
            /\ UNCHANGED <<inputVars, resultVars>>

\* response.json() rejects (the body is no JSON), or it resolves with null and
\* reading data.sentiment throws: catch, then finally.
JsonFails(i) ==
    /\ inv[i].pc = "json"
    /\ CatchError
    /\ Finally(i, "exception")
    /\ lastOp' = Op("jsonFails", i, "exception")
    /\ UNCHANGED clearedDuring
    /\ UNCHANGED <<inputVars, resultVars, inflight>>

\* response.json() resolves with an object: its sentiment is rendered, then
\* finally.
JsonResolves(i, sentiment) ==
    /\ inv[i].pc = "json"
    /\ UpdateResultUI(sentiment)
    /\ Finally(i, "success")
    /\ lastOp' = Op("jsonResolves", i, ToTextContent(sentiment))
    /\ UNCHANGED clearedDuring
    /\ UNCHANGED <<inputVars, toastVars, inflight>>

----------------------------------------------------------------------------
(* The utilities *)

\* loadSample() without the dispatch of the input event.
LoadSampleNoRecount(k) ==
    /\ reviewValue' = sampleReviews[k]
    /\ ShowToast(MsgSampleLoaded)
    /\ lastOp' = Op("loadSample", 0, "")
    /\ UNCHANGED clearedDuring
    /\ UNCHANGED <<charCountText, charCountColor, busyVars, resultVars,
                   invVars>>

\* loadSample(), with k the index Math.random() draws.
LoadSample(k) ==
    /\ reviewValue' = sampleReviews[k]
    /\ InputListener(sampleReviews[k])
    /\ ShowToast(MsgSampleLoaded)
    /\ lastOp' = Op("loadSample", 0, "")
    /\ UNCHANGED clearedDuring
    /\ UNCHANGED <<busyVars, resultVars, invVars>>

\* clearText() without the dispatch of the input event.
ClearTextNoRecount ==
    /\ reviewValue' = <<>>
    /\ resultVisible' = FALSE
    /\ ShowToast(MsgTextCleared)
    /\ lastOp' = Op("clearText", 0, "")
    /\ clearedDuring' = {i \in Slots : Outstanding(i)}
    /\ UNCHANGED <<charCountText, charCountColor, busyVars, rendered, invVars>>

\* clearText()
ClearText ==
    /\ reviewValue' = <<>>
    /\ InputListener(<<>>)
    /\ resultVisible' = FALSE
    /\ ShowToast(MsgTextCleared)
    /\ lastOp' = Op("clearText", 0, "")
    /\ clearedDuring' = {i \in Slots : Outstanding(i)}
    /\ UNCHANGED <<busyVars, rendered, invVars>>

\* sendFeedback that shows the type it was given instead of a fixed message.
SendFeedbackEchoesType(type) ==
    /\ ShowToast(type)
    /\ lastOp' = Op("sendFeedback", 0, type)
    /\ UNCHANGED clearedDuring
    /\ UNCHANGED <<inputVars, busyVars, resultVars, invVars>>

\* sendFeedback(type)
SendFeedback(type) ==
    /\ ShowToast(IF type = "correct" THEN MsgFeedbackCorrect
                 ELSE MsgFeedbackOther)
    /\ lastOp' = Op("sendFeedback", 0, type)
    /\ UNCHANGED clearedDuring
    /\ UNCHANGED <<inputVars, busyVars, resultVars, invVars>>

----------------------------------------------------------------------------
(* Time *)

DelayTimers == {inv[i].timer : i \in {j \in Slots : inv[j].pc = "delay"}}

\* TimeStep ms pass.  A callback that is due runs before time moves on.
Tick ==
    /\ toastTimers \cup DelayTimers # {}
    /\ 0 \notin toastTimers \cup DelayTimers
    /\ toastTimers' = {t - TimeStep : t \in toastTimers}
    /\ sinceToast' =
           IF sinceToast + TimeStep < ToastMs THEN sinceToast + TimeStep
           ELSE ToastMs
    /\ inv' = [i \in Slots |->
                  IF inv[i].pc = "delay"
                  THEN [inv[i] EXCEPT !.timer = @ - TimeStep]
                  ELSE inv[i]]
    /\ lastOp' = Op("tick", 0, "")
    /\ UNCHANGED clearedDuring
    /\ UNCHANGED <<inputVars, busyVars, resultVars, toastText, toastVisible,
                   inflight>>

----------------------------------------------------------------------------
(* Specifications *)

FeedbackTypes == {"correct", "incorrect"}

\* What happens besides a call of analyzeSentiment.
Others(inputs) ==
    \/ \E value \in inputs : InputEvent(value)
    \/ \E k \in 1..Len(sampleReviews) : LoadSample(k)
    \/ ClearText
    \/ \E type \in FeedbackTypes : SendFeedback(type)
    \/ ToastTimeout
    \/ Tick
    \/ \E i \in Slots : DelayElapsed(i)
    \/ \E i \in Slots : FetchRejects(i)
    \/ \E i \in Slots, ok \in BOOLEAN : FetchResolves(i, ok)
    \/ \E i \in Slots : JsonFails(i)
    \/ \E i \in Slots, s \in SentimentValues : JsonResolves(i, s)

\* The page: analyzeSentiment is called by clicks on the analyze button.
Next ==
    \/ ClickAnalyze
    \/ Others(TypedInputs)

Spec == Init /\ [][Next]_vars

\* The character counter alone: the three operations that run the input
\* listener, on strings of every length 0 .. MaxCount and no time passing.
NextCounter ==
    \/ \E value \in CountInputs : InputEvent(value)
    \/ \E k \in 1..Len(sampleReviews) : LoadSample(k)
    \/ ClearText

SpecCounter == Init /\ [][NextCounter]_vars

\* The page with analyzeSentiment callable at any time: the disabled button
\* keeps clicks away and nothing else, so a caller that is no click (a key
\* handler, a script, the console) starts a call while another is outstanding.
\* What is typed between the calls: nothing, and a text of its own for every
\* call that can be outstanding.
ReentrantInputs == {Filled(n) : n \in 0..MaxInvocations}

\* The labels the service answers with here.
ReentrantSentiments == {JsString("Positive"), JsString("Negative")}

NextReentrant ==
    \/ AnalyzeSentiment
    \/ \E value \in ReentrantInputs : InputEvent(value)
    \/ ClearText
    \/ \E type \in FeedbackTypes : SendFeedback(type)
    \/ ToastTimeout
    \/ Tick
    \/ \E i \in Slots : DelayElapsed(i)
    \/ \E i \in Slots : FetchRejects(i)
    \/ \E i \in Slots, ok \in BOOLEAN : FetchResolves(i, ok)
    \/ \E i \in Slots : JsonFails(i)
    \/ \E i \in Slots, s \in ReentrantSentiments : JsonResolves(i, s)

SpecReentrant == Init /\ [][NextReentrant]_vars

----------------------------------------------------------------------------
(* Properties *)

\* The last task ended call lastOp.id: its request settled as a success, a
\* non-2xx response or an exception.
CallEnded ==
    /\ lastOp.op \in {"fetchRejects", "fetchResolves", "jsonFails",
                      "jsonResolves"}
    /\ ~(lastOp.op = "fetchResolves" /\ lastOp.arg = "ok")

\* The last task ended a call in failure.
CallFailed ==
    CallEnded /\ lastOp.arg \in {"http_error", "exception"}

\* C1: every call that entered the loading state has run its cleanup not at
\* all while it is outstanding and exactly once when it has returned, whatever
\* the outcome; right after the task in which the request settles, the call
\* has returned, the overlay is hidden and the button enabled.
C1_CleanupExactlyOnce ==
    /\ \A i \in Slots :
          /\ Outstanding(i) => inv[i].cleanups = 0
          /\ inv[i].pc = "done" =>
                /\ inv[i].cleanups = 1
                /\ inv[i].outcome \in {"success", "http_error", "exception"}
    /\ CallEnded =>
          /\ inv[lastOp.id].pc = "done"
          /\ inv[lastOp.id].cleanups = 1
          /\ ~overlayVisible
          /\ ~btnDisabled

\* A call has just ended in an exception, cleaned up.
C1_Witness ==
    /\ CallEnded
    /\ lastOp.arg = "exception"
    /\ inv[lastOp.id].cleanups = 1
    /\ ~overlayVisible

\* C2: a call of analyzeSentiment on an empty or blank-only input shows the
\* empty-input toast and changes neither the overlay, the button, the result
\* card, the calls nor the requests in flight: no request is issued for it.
C2_EmptyInputRejected ==
    [][(lastOp'.op = "analyzeSentiment" /\ Trim(reviewValue) = <<>>) =>
          /\ lastOp'.arg = "empty"
          /\ toastText' = MsgEmptyInput
          /\ toastVisible'
          /\ UNCHANGED <<overlayVisible, btnDisabled, resultVisible, rendered,
                         inv, inflight>>]_vars

\* analyzeSentiment has just run on a blank-only input.
C2_Witness ==
    /\ lastOp = Op("analyzeSentiment", 0, "empty")
    /\ reviewValue # <<>>
    /\ toastText = MsgEmptyInput
    /\ toastVisible

\* C3: the toast is visible as long as less than 3 seconds have passed since
\* the latest showToast call, and hidden once they have passed and the
\* callback due then has run.
C3_ToastLastsThreeSeconds ==
    /\ sinceToast < ToastMs => toastVisible
    /\ (sinceToast = ToastMs /\ 0 \notin toastTimers) => ~toastVisible

\* C4: every task of a call that fails leaves the result card as it is, and
\* the task in which the call fails (non-2xx response, or an exception of the
\* request or of the parsing) shows the generic error toast.
C4_FailureShowsToastKeepsResult ==
    [][/\ lastOp'.op \in {"analyzeSentiment", "delayElapsed", "fetchRejects",
                          "fetchResolves", "jsonFails"} =>
              UNCHANGED <<resultVisible, rendered>>
       /\ CallFailed' =>
              /\ toastText' = MsgAnalysisError
              /\ toastVisible'
              /\ sinceToast' = 0]_vars

\* A call has just failed on a non-2xx response while a result is shown.
C4_Witness ==
    /\ CallFailed
    /\ lastOp.arg = "http_error"
    /\ resultVisible
    /\ toastText = MsgAnalysisError

\* The percentage the label alone determines.
LabelPercent(label) ==
    CASE label = "Positive" -> "80%"
      [] label = "Negative" -> "20%"
      [] OTHER -> "50%"

\* C5: whatever updateResultUI last rendered, the bar width and the confidence
\* text are the percentage of the label alone (80% for Positive, 20% for
\* Negative, 50% for anything else, a missing sentiment included), and right
\* after a rendering the result card is visible.
C5_ConfidenceFromLabel ==
    /\ rendered # NothingRendered =>
          /\ rendered.barWidth = LabelPercent(rendered.sentimentText)
          /\ rendered.confidenceText = LabelPercent(rendered.sentimentText)
    /\ lastOp.op = "jsonResolves" =>
          /\ resultVisible
          /\ rendered.sentimentText = lastOp.arg
          /\ rendered.barWidth = LabelPercent(lastOp.arg)
          /\ rendered.confidenceText = LabelPercent(lastOp.arg)

\* A response without a sentiment field has just been rendered.
C5_Witness ==
    /\ lastOp = Op("jsonResolves", 1, "undefined")
    /\ resultVisible
    /\ rendered.barWidth = "50%"

\* The display bundle of 'Neutral'.
NeutralBundle ==
    [sentimentText |-> "Neutral",
     indicatorClass |-> "sentiment-neutral",
     iconHTML |-> "<i class=\"fas fa-meh\"></i>",
     barWidth |-> "50%",
     barBackground |-> BarBackground,
     confidenceText |-> "50%"]

----------------------------------------------------------------------------
(* The request as the endpoint reads it *)

EscapedChars == {"\t", "\n", " ", "%", "&", "+", ",", "="}

HexValue(d) == CHOOSE n \in 0..15 : HexDigit(n) = d

CharOfCode(n) == CHOOSE c \in EscapedChars : CharCode(c) = n

\* The positions of s that start a character: those not inside a %XX escape.
CharStarts(s) ==
    SelectSeq([i \in 1..Len(s) |-> i],
              LAMBDA i : /\ ~(i > 1 /\ s[i - 1] = "%")
                         /\ ~(i > 2 /\ s[i - 2] = "%"))

\* The decoding of a form-urlencoded value: %XX is the character of that
\* code, + is a blank, anything else is itself.
FormDecode(s) ==
    LET starts == CharStarts(s) IN
    [k \in 1..Len(starts) |->
        LET i == starts[k] IN
        IF s[i] = "%" THEN CharOfCode(16 * HexValue(s[i + 1]) + HexValue(s[i + 2]))
        ELSE IF s[i] = "+" THEN " "
        ELSE s[i]]

\* The value of the field `text` of a form-urlencoded body holding that field
\* alone.
TextField(body) == FormDecode(SubSeq(body, 6, Len(body)))

\* C7: a call in its delay has issued no request; the task that ends the
\* delay issues exactly one, which stays in flight as it is until it is
\* answered, and none is issued after it; the request is a body with the
\* single field `text` whose value is the text of the call, and that text is
\* the trimmed, non-empty content of the text area at the call, kept whatever
\* the text area holds since.
C7_OneRequestWithTextAtInvocation ==
    [][/\ \A i \in Slots :
             /\ inv'[i].pc \in {"idle", "delay"} =>
                   inv'[i].sent = 0 /\ inflight'[i] = <<>>
             /\ inv'[i].pc = "fetch" =>
                   inv'[i].sent = 1 /\ Len(inflight'[i]) = 1
             /\ inv'[i].pc \in {"json", "done"} =>
                   inv'[i].sent = 1 /\ inflight'[i] = <<>>
             /\ (inv[i].pc = "fetch" /\ inv'[i].pc = "fetch") =>
                   inflight'[i] = inflight[i]
             /\ (Outstanding(i) /\ Outstanding(i)') => inv'[i].text = inv[i].text
       /\ (lastOp'.op = "analyzeSentiment" /\ lastOp'.arg = "busy") =>
             /\ inv'[lastOp'.id].pc = "delay"
             /\ inv'[lastOp'.id].text = Trim(reviewValue)
             /\ inv'[lastOp'.id].text # <<>>
       /\ lastOp'.op = "delayElapsed" =>
             /\ inv[lastOp'.id].pc = "delay"
             /\ inv'[lastOp'.id].pc = "fetch"
             /\ SubSeq(inflight'[lastOp'.id][1], 1, 5) = <<"t","e","x","t","=">>
             /\ TextField(inflight'[lastOp'.id][1]) = inv[lastOp'.id].text]_vars

\* The request for the third sample (blanks, a comma and apostrophes in it)
\* has just been issued, the text area having been cleared during the delay.
C7_Witness ==
    /\ lastOp.op = "delayElapsed"
    /\ inv[1].pc = "fetch"
    /\ inv[1].text = sampleReviews[3]
    /\ TextField(inflight[1][1]) = sampleReviews[3]
    /\ reviewValue = <<>>

\* C8: with analyzeSentiment called by clicks on the enabled button only, at
\* most one call is outstanding, and while one is, the overlay is visible and
\* the button disabled, whatever else has run in between.
C8_SingleCallStaysBusy ==
    /\ Cardinality({i \in Slots : Outstanding(i)}) <= 1
    /\ (\E i \in Slots : Outstanding(i)) => (overlayVisible /\ btnDisabled)

\* The text was cleared while a request was in flight, and the page is busy.
C8_Witness ==
    /\ lastOp.op = "clearText"
    /\ inv[1].pc = "fetch"
    /\ overlayVisible
    /\ btnDisabled

----------------------------------------------------------------------------
(* The counter as the user reads it *)

DigitValue(d) == CHOOSE n \in 0..9 : DecimalDigit(n) = d

\* The number a string of decimal digits denotes.
RECURSIVE DecimalValue(_)
DecimalValue(s) ==
    IF s = <<>> THEN 0
    ELSE 10 * DecimalValue(SubSeq(s, 1, Len(s) - 1)) + DigitValue(s[Len(s)])

\* The band of a colour of the counter.
ColorBand(color) ==
    CASE color = "#6c757d" -> "normal"
      [] color = "#ffaa00" -> "warning"
      [] color = "#ef233c" -> "critical"
      [] OTHER -> "unset"

\* The band the count alone determines.
CountBand(count) ==
    IF count <= 400 THEN "normal"
    ELSE IF count <= 450 THEN "warning"
    ELSE "critical"

\* C9: after an input event (typed, or dispatched by loadSample or clearText)
\* the counter shows the length of the text and has the colour of the band of
\* that length: normal up to 400, warning from 401 to 450, critical above.
C9_CountAndBand ==
    lastOp.op \in {"input", "loadSample", "clearText"} =>
        /\ DecimalValue(charCountText) = Len(reviewValue)
        /\ ColorBand(charCountColor) = CountBand(Len(reviewValue))

\* A text of 451 characters has been entered: counted, and shown critical.
C9_Witness ==
    /\ lastOp.op = "input"
    /\ Len(reviewValue) = 451
    /\ DecimalValue(charCountText) = 451
    /\ charCountColor = ColorCritical

\* C10: clearText empties the text area, sets the counter to 0 in the normal
\* colour, hides the result card and shows the toast 'Text cleared'; it
\* changes neither the overlay, the button, the calls nor the requests in
\* flight.
C10_ClearTextResets ==
    [][lastOp'.op = "clearText" =>
          /\ reviewValue' = <<>>
          /\ DecimalValue(charCountText') = 0
          /\ ColorBand(charCountColor') = "normal"
          /\ ~resultVisible'
          /\ toastText' = "Text cleared"
          /\ toastVisible'
          /\ UNCHANGED <<overlayVisible, btnDisabled, inv, inflight>>]_vars

\* The text was cleared while a call was in its delay and a result was shown.
C10_Witness ==
    /\ lastOp.op = "clearText"
    /\ inv[1].pc = "delay"
    /\ rendered # NothingRendered
    /\ reviewValue = <<>>
    /\ ~resultVisible


\* C11: loadSample puts one of the 5 sample strings into the text area, sets
\* the counter to the length of that string in the colour of its band and
\* shows the toast 'Sample review loaded'; it changes neither the result
\* card, the overlay, the button, the calls nor the requests in flight.
C11_LoadSampleSetsInputAndCount ==
    [][lastOp'.op = "loadSample" =>
          /\ Len(sampleReviews) = 5
          /\ \E k \in 1..5 : reviewValue' = sampleReviews[k]
          /\ DecimalValue(charCountText') = Len(reviewValue')
          /\ ColorBand(charCountColor') = CountBand(Len(reviewValue'))
          /\ toastText' = "Sample review loaded"
          /\ toastVisible'
          /\ UNCHANGED <<resultVisible, rendered, overlayVisible, btnDisabled,
                         inv, inflight>>]_vars

\* The fifth sample was loaded while a request was in flight and a result
\* was shown.
C11_Witness ==
    /\ lastOp.op = "loadSample"
    /\ reviewValue = sampleReviews[5]
    /\ DecimalValue(charCountText) = 129
    /\ inv[1].pc = "fetch"
    /\ resultVisible


\* C12 as claimed: when a call ends while the card shows the result of an
\* earlier call, the card shows that result no longer: the call has rendered
\* its own result (success) or the card is not visible (failure).
C12_ResultDoesNotOutliveNextCall ==
    [][(CallEnded' /\ resultVisible) =>
          (lastOp'.op = "jsonResolves" \/ ~resultVisible')]_vars

\* C12 as amended: a call that succeeds replaces what the card holds by its
\* own result and shows the card; a call that fails leaves the card as it is,
\* the result of an earlier call included.
C12_ResultReplacedOnSuccessOnly ==
    [][CallEnded' =>
          IF lastOp'.op = "jsonResolves"
          THEN /\ resultVisible'
               /\ rendered'.sentimentText = lastOp'.arg
               /\ rendered'.confidenceText = LabelPercent(lastOp'.arg)
          ELSE /\ resultVisible' = resultVisible
               /\ rendered' = rendered]_vars

\* A call has just failed on an exception and the Positive result of an
\* earlier call is still shown.
C12_Witness ==
    /\ CallFailed
    /\ lastOp.arg = "exception"
    /\ resultVisible
    /\ rendered.sentimentText = "Positive"


\* C15: a call goes through its stages in one order.  It enters the loading
\* state (overlay shown, button disabled, delay of 1500 ms started, nothing
\* sent); the delay runs down with the passing of time only; the request is
\* issued in the task that ends the delay, when no time is left of it, and in
\* no other task; the outcome (the rendering, or the error toast) is shown by
\* a call that has issued its request and has not left the loading state, in
\* the task in which it leaves it.
C15_StagesInOrder ==
    [][/\ \A i \in Slots :
             /\ (~Outstanding(i) /\ inv'[i] # inv[i]) =>
                   /\ inv'[i].pc = "delay"
                   /\ inv'[i].timer = 1500
                   /\ inv'[i].sent = 0
                   /\ overlayVisible' /\ btnDisabled'
                   /\ lastOp'.op = "analyzeSentiment"
             /\ (inv[i].pc = "delay" /\ inv'[i] # inv[i]) =>
                   \/ /\ inv'[i].pc = "delay"
                      /\ inv'[i].timer < inv[i].timer
                      /\ lastOp'.op = "tick"
                   \/ /\ inv'[i].pc = "fetch"
                      /\ inv[i].timer = 0
                      /\ inv'[i].sent = 1
                      /\ Len(inflight'[i]) = 1
             /\ (inv[i].pc = "fetch" /\ inv'[i] # inv[i]) =>
                   inv'[i].pc \in {"json", "done"}
             /\ (inv[i].pc = "json" /\ inv'[i] # inv[i]) =>
                   inv'[i].pc = "done"
             /\ Len(inflight'[i]) > Len(inflight[i]) =>
                   /\ inv[i].pc = "delay"
                   /\ overlayVisible /\ btnDisabled
       /\ (rendered' # rendered \/ (CallEnded' /\ toastText' = MsgAnalysisError)) =>
             /\ CallEnded'
             /\ inv[lastOp'.id].pc \in {"fetch", "json"}
             /\ inv[lastOp'.id].sent = 1
             /\ inv[lastOp'.id].cleanups = 0
             /\ overlayVisible /\ btnDisabled
             /\ inv'[lastOp'.id].pc = "done"
             /\ inv'[lastOp'.id].cleanups = 1
             /\ ~overlayVisible' /\ ~btnDisabled']_vars

\* A call has gone through all its stages and rendered the Negative result.
C15_Witness ==
    /\ lastOp = Op("jsonResolves", 1, "Negative")
    /\ inv[1].pc = "done"
    /\ inv[1].sent = 1
    /\ inv[1].outcome = "success"
    /\ ~overlayVisible


\* C16: the result card becomes visible, and what it holds changes, in no
\* task but the one that renders a successful response: not by an input
\* event, loadSample, sendFeedback, a toast timer, the passing of time, a call
\* on empty input or a failing call.  sendFeedback changes neither the calls
\* nor the requests in flight, and shows one of its two messages.
C16_CardChangedBySuccessOnly ==
    [][/\ ((~resultVisible /\ resultVisible') \/ rendered' # rendered) =>
             lastOp'.op = "jsonResolves"
       /\ lastOp'.op \in {"input", "loadSample", "sendFeedback", "toastTimeout",
                          "tick", "analyzeSentiment", "delayElapsed",
                          "fetchRejects", "fetchResolves", "jsonFails"} =>
             UNCHANGED <<resultVisible, rendered>>
       /\ lastOp'.op = "sendFeedback" =>
             /\ UNCHANGED <<inv, inflight, overlayVisible, btnDisabled>>
             /\ toastVisible'
             /\ toastText' \in
                   {"Thanks for your positive feedback!",
                    "We appreciate your feedback and will improve our model."}
             /\ toastText' = "Thanks for your positive feedback!" <=>
                   lastOp'.arg = "correct"]_vars

\* Feedback 'incorrect' was given on a shown result while the next call was
\* in its delay.
C16_Witness ==
    /\ lastOp = Op("sendFeedback", 0, "incorrect")
    /\ toastText = MsgFeedbackOther
    /\ resultVisible
    /\ inv[1].pc = "delay"



\* C13: the result card goes from hidden to visible only by the success of a
\* call in whose course clearText has not run: after clearText the card stays
\* hidden until a call made after it succeeds, and the response to a call
\* that was in its delay or awaiting the network at the clearText does not
\* show the card again.
C13_ClearedCallDoesNotShowResult ==
    [][(~resultVisible /\ resultVisible') =>
          /\ lastOp'.op = "jsonResolves"
          /\ lastOp'.id \notin clearedDuring]_vars



\* C14: analyzeSentiment called with a text while another call is outstanding
\* proceeds as any call does: it enters its own delay with the text it read,
\* and the other calls and the requests in flight are left as they are.  Each
\* call issues one request of its own, with its own text, and touches no
\* request of another call.  The call that ends while another is outstanding
\* hides the overlay and enables the button, and the other call stays
\* outstanding.
C14_OverlappingCallsBothProceed ==
    [][LET i == lastOp'.id IN
       /\ (/\ lastOp'.op = "analyzeSentiment"
           /\ lastOp'.arg = "busy"
           /\ \E j \in Slots : Outstanding(j)) =>
              /\ ~Outstanding(i)
              /\ inv'[i].pc = "delay"
              /\ inv'[i].text = Trim(reviewValue)
              /\ inv'[i].timer = DelayMs
              /\ inv'[i].sent = 0
              /\ \A j \in Slots \ {i} : inv'[j] = inv[j]
              /\ inflight' = inflight
       /\ lastOp'.op = "delayElapsed" =>
              /\ inflight'[i] = <<RequestBody(inv[i].text)>>
              /\ inv'[i].sent = 1
              /\ \A j \in Slots \ {i} :
                     inflight'[j] = inflight[j] /\ inv'[j] = inv[j]
       /\ (CallEnded' /\ \E j \in Slots \ {i} : Outstanding(j)) =>
              /\ ~overlayVisible'
              /\ ~btnDisabled'
              /\ \A j \in Slots \ {i} : inv'[j] = inv[j]]_vars

\* Call 1 has just ended in success while call 2, started during call 1,
\* awaits the answer to its own request: the overlay is hidden and the
\* button enabled.
C14_Witness ==
    /\ lastOp = Op("jsonResolves", 1, "Positive")
    /\ inv[1].sent = 1
    /\ inv[2].pc = "fetch"
    /\ inv[2].sent = 1
    /\ inflight[2] = <<RequestBody(Filled(2))>>
    /\ ~overlayVisible
    /\ ~btnDisabled


\* C17: the overlay is visible exactly when the button is disabled, in every
\* state, overlapping calls included.  A call that enters the loading state
\* sets both, a call that ends clears both, and no other task changes either.
C17_OverlayIffDisabled ==
    /\ [](overlayVisible <=> btnDisabled)
    /\ [][/\ (lastOp'.op = "analyzeSentiment" /\ lastOp'.arg = "busy") =>
                 (overlayVisible' /\ btnDisabled')
          /\ CallEnded' => (~overlayVisible' /\ ~btnDisabled')
          /\ (~(lastOp'.op = "analyzeSentiment" /\ lastOp'.arg = "busy")
                 /\ ~CallEnded') =>
                 UNCHANGED <<overlayVisible, btnDisabled>>]_vars

\* Two calls are outstanding, the second just started: overlay and button
\* are set as the first call set them.
C17_Witness ==
    /\ lastOp = Op("analyzeSentiment", 2, "busy")
    /\ Outstanding(1)
    /\ Outstanding(2)
    /\ overlayVisible
    /\ btnDisabled

====
